---- MODULE Spec2Model ----
(***************************************************************************)
(* A model of starpy's AMI client engine (src/starpy/manager.py): the      *)
(* correlation registry (actionIDCallbacks), the event registry            *)
(* (eventTypeCallbacks), the two request modes built on Twisted Deferreds  *)
(* (sendDeferred, collectDeferred), the raw sendMessage callback, the line *)
(* buffer and parser (lineReceived, dispatchIncoming), the dispatcher,     *)
(* connectionLost, and the AMIFactory with its login sequence, loginDefer  *)
(* and reconnects.                                                         *)
(*                                                                         *)
(* A parsed message is a record [actionid, event, response, challenge]; a  *)
(* field the message does not carry holds NoId (actionid) or Absent.       *)
(* Strings that the code builds or parses are sequences of characters.     *)
(***************************************************************************)
EXTENDS Integers, Sequences, FiniteSets, TLC

\* ------------------------------------------------------------- bounds
MaxReq == 2            \* requests registered with a callback (Spec, SpecLoss, SpecIds)
MaxArrive == 3         \* messages dispatched (Spec, SpecCollect)
MaxRegOps == 2         \* registerEvent / deregisterEvent calls (Spec, SpecLoss)
MaxCount == 12         \* action ids generated (Spec, SpecIds)
MaxLossArrive == 1     \* messages dispatched before the connection is lost (SpecLoss)
MaxCollectReq == 2     \* collecting requests (SpecCollect)
MaxSingleReq == 2      \* single-response requests (SpecSingle)
MaxSingleArrive == 2   \* messages dispatched (SpecSingle)
MaxEventsReq == 1      \* requests registered (SpecEvents)
MaxEventsRegOps == 2   \* registerEvent calls (SpecEvents)
MaxEventsArrive == 1   \* messages dispatched (SpecEvents)
MaxConn == 2           \* connections made (SpecFactory)
MaxFactoryArrive == 3  \* messages dispatched (SpecFactory)
MaxRegisterOps == 3    \* registerEvent calls (SpecRegister)
MaxRegisterArrive == 1 \* events dispatched (SpecRegister)
MaxDeregOps == 4       \* registerEvent / deregisterEvent calls (SpecDeregister)
MaxPairs == 2          \* key/value pairs of a request (SpecRound)
MaxCleanupReq == 2     \* requests sent (SpecCleanup)
MaxCleanupArrive == 2  \* messages that arrive (SpecCleanup)
MaxFramingBlocks == 3  \* blocks dispatched (SpecFraming)
MaxFramingLines == 3   \* lines of a block before its blank line (SpecFraming)
MaxReentrantOps == 3   \* handlers registered (SpecReentrant)
MaxReentrantArrive == 2 \* events that arrive (SpecReentrant)
MaxHandlerCalls == 16  \* handler calls of one dispatch that are followed
MaxDuplicateReq == 3   \* requests sent (SpecDuplicate)
MaxDuplicateArrive == 2 \* replies that arrive (SpecDuplicate)
MaxOrderReq == 3       \* requests in flight (SpecOrder)
MaxOrderArrive == 3    \* messages dispatched (SpecOrder)
MaxBlockLines == 3     \* non-blank lines of one block (SpecFramer)
MaxFramerBlocks == 1   \* blocks dispatched (SpecFramer)
MaxFreshConn == 2      \* connections made (SpecFresh)
MaxFreshUser == 2      \* requests of the caller (SpecFresh)
MaxFreshRegOps == 2    \* registerEvent calls (SpecFresh)
MaxFreshArrive == 3    \* messages dispatched (SpecFresh)
MaxFreshLines == 1     \* lines of an unfinished block (SpecFresh)

\* ------------------------------------------------------------- values
Absent == "~absent~"
NoId == << >>
NoneKey == "~None~"            \* the None key of eventTypeCallbacks (wildcard)
NoneFn == "~NoneFn~"           \* function=None of deregisterEvent
NoVersion == <<"~None~">>      \* amiVersion = None

HostName == <<"h">>            \* socket.gethostname()
InstanceId == <<"7">>          \* id(self)

DigitChars == <<"0", "1", "2", "3", "4", "5", "6", "7", "8", "9">>

RECURSIVE Decimal(_)
\* '%s' % n for a non-negative integer n
Decimal(n) ==
    IF n < 10 THEN <<DigitChars[n + 1]>>
    ELSE Decimal(n \div 10) \o <<DigitChars[(n % 10) + 1]>>

\* '%s-%s-%s' % (self.hostName, id(self), self.count)
FormatActionId(c) == HostName \o <<"-">> \o InstanceId \o <<"-">> \o Decimal(c)

\* self.count += 1 (mutant: the counter is not advanced)
NextCountStuck(c) == c
NextCount(c) == c + 1

EventNames == {"A", "T"}
Responses == {"Success", "Error", "Pong"}
StopEvents == {"T"}
Expecteds == {"Success", "Pong"}
Handlers == {"h1", "hr"}       \* hr raises when invoked, h1 (and h2) return
EventKeys == EventNames \cup {NoneKey}

HandlerRaises(h) == h = "hr"

Msg(aid, ev, resp) ==
    [actionid |-> aid, event |-> ev, response |-> resp, challenge |-> Absent]
\* a reply that carries a challenge field
ChallengeMsg(aid, resp, ch) == [Msg(aid, Absent, resp) EXCEPT !.challenge = ch]

\* values a Deferred carries and callbacks are invoked with: a kind and the
\* messages the value holds
Val(kind, msgs) == [kind |-> kind, msgs |-> msgs]
NoVal == Val("none", << >>)
MsgVal(m) == Val("message", <<m>>)
ListVal(ms) == Val("list", ms)
ConnectionDone == Val("ConnectionDone", << >>)
AMICommandFailure(m) == Val("AMICommandFailure", <<m>>)
KeyError == Val("KeyError", << >>)
ObserverError == Val("ObserverError", << >>)
Protocol == Val("AMIProtocol", << >>)          \* the protocol instance (self)
ConnectError == Val("ConnectError", << >>)     \* the reason of a failed connect
TypeError == Val("TypeError", << >>)

Secret == <<"s">>                              \* factory.secret
\* md5('%s%s' % (challenge, secret)).hexdigest(), for a challenge named ch
Digest(ch, secret) == <<"md5", <<ch>> \o secret>>

IsDict(v) == v.kind = "message"

\* {} : a dict with no keys
EmptyDict == [x \in {} |-> 0]

VARIABLES
    count,               \* AMIProtocol.count
    generated,           \* every id generateActionId returned, in order
    actionIDCallbacks,   \* id -> index in reqs of the request whose callback it holds
    eventTypeCallbacks,  \* event key -> sequence of handlers
    reqs,                \* the requests made: their Deferred, closure state and logs
    connected,           \* FALSE once connectionLost has run
    arrivals,            \* messages dispatched so far
    regOps,              \* registerEvent / deregisterEvent calls so far
    last,                \* what the last operation did
    lost,                \* what connectionLost found and did
    messageCache,        \* AMIProtocol.messageCache: the lines of the open block
    amiVersion,          \* AMIProtocol.amiVersion
    factory              \* the AMIFactory, its connector and its loginDefers

vars == <<count, generated, actionIDCallbacks, eventTypeCallbacks, reqs,
          connected, arrivals, regOps, last, lost, messageCache, amiVersion, factory>>

NoLast == [op |-> "none", msg |-> Msg(NoId, Absent, Absent), target |-> 0,
           raised |-> FALSE, fanout |-> << >>, escaped |-> FALSE, ret |-> TRUE,
           block |-> << >>, parsed |-> EmptyDict, found |-> TRUE,
           form |-> "none", request |-> << >>, actionid |-> NoId, sent |-> << >>,
           unfinished |-> FALSE]

\* a pending Deferred of AMIFactory.login / clientConnectionLost
NewDefer == [state |-> "pending", result |-> NoVal, conn |-> 0, calls |-> 0]

\* an AMIFactory after __init__(username, secret, plaintext_login, on_reconnect)
NewFactory(plaintext, onReconnect) ==
    [phase |-> "constructed", plaintext |-> plaintext, onReconnect |-> onReconnect,
     defers |-> << >>, notified |-> << >>, retries |-> 0, conn |-> 0,
     loginReq |-> 0, closed |-> FALSE, authenticated |-> FALSE,
     losses |-> 0, lossesSinceAuth |-> 0, python3 |-> TRUE]

\* a protocol that is driven directly, connected, with no login sequence
Detached == [NewFactory(TRUE, FALSE) EXCEPT !.phase = "detached"]

Init ==
    /\ messageCache = << >>
    /\ amiVersion = NoVersion
    /\ factory = Detached
    /\ count = 0
    /\ generated = << >>
    /\ actionIDCallbacks = EmptyDict
    /\ eventTypeCallbacks = EmptyDict
    /\ reqs = << >>
    /\ connected = TRUE
    /\ arrivals = 0
    /\ regOps = 0
    /\ last = NoLast
    /\ lost = [pending |-> {}, raised |-> {}, subs |-> 0]

\* ---------------------------------------------------------- registries
\* dict with key k set to v
DictSet(d, k, v) == [x \in (DOMAIN d) \cup {k} |-> IF x = k THEN v ELSE d[x]]
\* dict without key k
DictDel(d, k) == [x \in (DOMAIN d) \ {k} |-> d[x]]

\* cleanup: del self.actionIDCallbacks[actionid], KeyError ignored
\* (mutant: the entry is left in place)
CleanupKeep(reg, actionid) == reg
Cleanup(reg, actionid) == DictDel(reg, actionid)

NewReq(mode, aid, stop, check, observer) ==
    [mode |-> mode, actionid |-> aid, stopEvent |-> stop, check |-> check,
     observer |-> observer, called |-> FALSE, state |-> "pending",
     result |-> NoVal, cache |-> << >>, got |-> << >>, seen |-> << >>,
     observed |-> << >>, conn |-> 0, chain |-> "none", key |-> Absent,
     heldAtObserver |-> << >>]

\* ------------------------------------------------------- Deferred chains
\* errorUnlessResponse(message, expected): the outcome of the callback, as the
\* Deferred records it (mutant: the comparison is dropped)
ErrorUnlessResponseLax(value, expected) == [state |-> "success", result |-> value]
ErrorUnlessResponse(value, expected) ==
    IF IsDict(value)
    THEN IF value.msgs[1].response = Absent
         THEN [state |-> "failure", result |-> KeyError]
         ELSE IF value.msgs[1].response # expected
              THEN [state |-> "failure", result |-> AMICommandFailure(value.msgs[1])]
              ELSE [state |-> "success", result |-> value]
    ELSE [state |-> "success", result |-> value]

\* checkErrorResponse: does the error observer run on this result
ObserverRuns(req, value) ==
    /\ IsDict(value)
    /\ value.msgs[1].response = "Error"
    /\ req.observer # "none"

\* the callback chain of the Deferred of sendDeferred, run on df.callback(value):
\* checkErrorResponse, then errorUnlessResponse where the caller chained it
SingleChain(req, value) ==
    LET first == IF ObserverRuns(req, value) /\ req.observer = "raise"
                 THEN [state |-> "failure", result |-> ObserverError]
                 ELSE [state |-> "success", result |-> value]
    IN  IF req.check # "none" /\ first.state = "success"
        THEN ErrorUnlessResponse(first.result, req.check)
        ELSE first

\* df.callback(value) for a sendDeferred request: the request after the call, and
\* whether the call raised into its caller
FireSingle(req, value) ==
    IF req.called
    THEN [req |-> [req EXCEPT !.got = Append(@, value)],
          cleaned |-> FALSE, raised |-> TRUE]
    ELSE LET out == SingleChain(req, value)
         IN  [req |-> [req EXCEPT !.got = Append(@, value), !.called = TRUE,
                                  !.state = out.state, !.result = out.result,
                                  !.observed = IF ObserverRuns(req, value)
                                               THEN Append(@, value.msgs[1]) ELSE @],
              cleaned |-> TRUE, raised |-> FALSE]

\* onEvent of collectDeferred (mutants: the terminal event is tested before the
\* Error response; the terminal message is not appended)
OnEventStopFirst(req, value) ==
    IF ~IsDict(value)
    THEN [req |-> [req EXCEPT !.got = Append(@, value)],
          cleaned |-> FALSE, raised |-> TRUE]
    ELSE LET event == value.msgs[1]
             r1 == [req EXCEPT !.got = Append(@, value)]
         IN  IF event.event = req.stopEvent
             THEN IF req.called
                  THEN [req |-> [r1 EXCEPT !.cache = Append(@, event)],
                        cleaned |-> FALSE, raised |-> TRUE]
                  ELSE [req |-> [r1 EXCEPT !.cache = Append(@, event), !.called = TRUE,
                                           !.state = "success",
                                           !.result = ListVal(Append(req.cache, event))],
                        cleaned |-> TRUE, raised |-> FALSE]
             ELSE IF event.response = "Error"
                  THEN [req |-> [r1 EXCEPT !.called = TRUE, !.state = "failure",
                                           !.result = AMICommandFailure(event)],
                        cleaned |-> TRUE, raised |-> FALSE]
                  ELSE [req |-> [r1 EXCEPT !.cache = Append(@, event)],
                        cleaned |-> FALSE, raised |-> FALSE]
OnEventDropStop(req, value) ==
    IF ~IsDict(value)
    THEN [req |-> [req EXCEPT !.got = Append(@, value)],
          cleaned |-> FALSE, raised |-> TRUE]
    ELSE LET event == value.msgs[1]
             r1 == [req EXCEPT !.got = Append(@, value)]
         IN  IF event.response = "Error"
             THEN [req |-> [r1 EXCEPT !.called = TRUE, !.state = "failure",
                                      !.result = AMICommandFailure(event)],
                   cleaned |-> TRUE, raised |-> FALSE]
             ELSE IF event.event = req.stopEvent
                  THEN [req |-> [r1 EXCEPT !.called = TRUE, !.state = "success",
                                           !.result = ListVal(req.cache)],
                        cleaned |-> TRUE, raised |-> FALSE]
                  ELSE [req |-> [r1 EXCEPT !.cache = Append(@, event)],
                        cleaned |-> FALSE, raised |-> FALSE]
OnEvent(req, value) ==
    IF ~IsDict(value)
    THEN \* event.get on an exception object: AttributeError
         [req |-> [req EXCEPT !.got = Append(@, value)],
          cleaned |-> FALSE, raised |-> TRUE]
    ELSE LET event == value.msgs[1]
             r1 == [req EXCEPT !.got = Append(@, value)]
         IN  IF event.response = "Error"
             THEN IF req.called
                  THEN [req |-> r1, cleaned |-> FALSE, raised |-> TRUE]
                  ELSE \* df.errback(AMICommandFailure(event)); errback: cleanup
                       [req |-> [r1 EXCEPT !.called = TRUE, !.state = "failure",
                                           !.result = AMICommandFailure(event)],
                        cleaned |-> TRUE, raised |-> FALSE]
             ELSE IF event.event = req.stopEvent
                  THEN IF req.called
                       THEN [req |-> [r1 EXCEPT !.cache = Append(@, event)],
                             cleaned |-> FALSE, raised |-> TRUE]
                       ELSE \* cache.append(event); df.callback(cache); callback: cleanup
                            [req |-> [r1 EXCEPT !.cache = Append(@, event),
                                                !.called = TRUE, !.state = "success",
                                                !.result = ListVal(Append(req.cache, event))],
                             cleaned |-> TRUE, raised |-> FALSE]
                  ELSE [req |-> [r1 EXCEPT !.cache = Append(@, event)],
                        cleaned |-> FALSE, raised |-> FALSE]

\* a callback handed to sendMessage directly: caller's code, which may raise
RawCallback(req, value, raises) ==
    [req |-> [req EXCEPT !.got = Append(@, value)], cleaned |-> FALSE, raised |-> raises]

\* the registry as df._errorRespCallback finds it: checkErrorResponse has called
\* self.cleanup before it calls the observer
RegistryAtObserver(before, after) == after

\* callable(value) for the callback of request r; cleanup runs inside the chain
Invoke(reg, rqs, r, value, rawRaises) ==
    LET req == rqs[r]
        out == CASE req.mode = "single" -> FireSingle(req, value)
                 [] req.mode = "collect" -> OnEvent(req, value)
                 [] OTHER -> RawCallback(req, value, rawRaises)
        cleaned == IF out.cleaned THEN Cleanup(reg, req.actionid) ELSE reg
        observerRan == req.mode = "single" /\ out.cleaned /\ ObserverRuns(req, value)
    IN  [reg |-> cleaned,
         reqs |-> [rqs EXCEPT ![r] =
                      IF observerRan
                      THEN [out.req EXCEPT !.heldAtObserver =
                               Append(@, req.actionid \in
                                           DOMAIN RegistryAtObserver(reg, cleaned))]
                      ELSE out.req],
         raised |-> out.raised]

\* ------------------------------------------------------- event registry
\* setdefault(ev, []).append(function) on the list held for ev (mutant: a function
\* that is in the list is not added again)
AppendHandlerOnce(old, fn) ==
    IF \E i \in DOMAIN old : old[i] = fn THEN old ELSE Append(old, fn)
AppendHandler(old, fn) == Append(old, fn)

RECURSIVE RegisterLoop(_, _, _)
\* for ev in event: self.eventTypeCallbacks.setdefault(ev, []).append(function)
RegisterLoop(reg, evs, fn) ==
    IF evs = << >> THEN reg
    ELSE LET ev == Head(evs)
             old == IF ev \in DOMAIN reg THEN reg[ev] ELSE << >>
         IN  RegisterLoop(DictSet(reg, ev, AppendHandler(old, fn)), Tail(evs), fn)

\* while function in set: set.remove(function)
RemoveAll(set, fn) == SelectSeq(set, LAMBDA x : x # fn)

RECURSIVE DeregisterLoop(_, _, _, _)
\* the loop of deregisterEvent: the registry after it and the success flag
DeregisterLoop(reg, evs, fn, success) ==
    IF evs = << >> THEN [reg |-> reg, success |-> success]
    ELSE LET ev == Head(evs)
         IN  IF ev \notin DOMAIN reg
             THEN DeregisterLoop(reg, Tail(evs), fn, FALSE)
             ELSE LET set == RemoveAll(reg[ev], fn)
                  IN  IF set = << >> \/ fn = NoneFn
                      THEN DeregisterLoop(DictDel(reg, ev), Tail(evs), fn, success)
                      ELSE DeregisterLoop(DictSet(reg, ev, set), Tail(evs), fn, success)

\* the try/except around handler(self, event) in dispatchEvent: no exception of a
\* handler leaves it (mutant: the exception of a raising handler propagates)
HandlerEscapesUncaught(h) == HandlerRaises(h)
HandlerEscapes(h) == FALSE

\* what a fan-out did: the handlers invoked, in order, and whether an exception
\* left dispatchEvent
NoFanout == [log |-> << >>, escaped |-> FALSE]

RECURSIVE HandlerLoop(_, _, _)
\* for handler in handlers: try: handler(self, event) except Exception: log
HandlerLoop(handlers, i, out) ==
    IF i > Len(handlers) THEN out
    ELSE LET o == [log |-> Append(out.log, handlers[i]),
                   escaped |-> HandlerEscapes(handlers[i])]
         IN  IF o.escaped THEN o ELSE HandlerLoop(handlers, i + 1, o)

RECURSIVE KeyLoop(_, _, _)
\* for key in (event['event'], None): handlers = self.eventTypeCallbacks[key] ...
KeyLoop(reg, keys, out) ==
    IF keys = << >> \/ out.escaped THEN out
    ELSE IF Head(keys) \in DOMAIN reg
         THEN KeyLoop(reg, Tail(keys), HandlerLoop(reg[Head(keys)], 1, out))
         ELSE KeyLoop(reg, Tail(keys), out)

\* dispatchEvent: the handlers invoked with the event, in order
DispatchEvent(reg, event) == KeyLoop(reg, <<event.event, NoneKey>>, NoFanout)

\* Handlers that call back into the protocol: "hd" deregisters itself from "T" as
\* extractValue of dbGet does from its event, "hs" registers itself for "T" again.
ReentrantHandlers == {"h1", "hd", "hs"}

\* eventTypeCallbacks after the body of handler h has run
HandlerEffect(h, reg) ==
    CASE h = "hd" -> DeregisterLoop(reg, <<"T">>, "hd", TRUE).reg
      [] h = "hs" -> RegisterLoop(reg, <<"T">>, "hs")
      [] OTHER -> reg

RECURSIVE LiveLoop(_, _, _, _, _)
\* for handler in handlers, where handlers is the list object held in
\* eventTypeCallbacks: registerEvent appends to that object and deregisterEvent
\* removes from it while the loop reads it by position; once deregisterEvent has
\* emptied the list and deleted the key, the loop is left with the empty list.
\* The loop is followed for MaxHandlerCalls calls.
LiveLoop(reg, key, attached, i, out) ==
    IF ~attached \/ i > Len(reg[key])
    THEN [reg |-> reg, log |-> out.log, unfinished |-> FALSE]
    ELSE IF Len(out.log) >= MaxHandlerCalls
    THEN [reg |-> reg, log |-> out.log, unfinished |-> TRUE]
    ELSE LET h == reg[key][i]
             after == HandlerEffect(h, reg)
         IN  LiveLoop(after, key, key \in DOMAIN after, i + 1,
                      [out EXCEPT !.log = Append(@, h)])

RECURSIVE LiveKeyLoop(_, _, _)
\* for key in (event['event'], None): each list is looked up when its turn comes
LiveKeyLoop(reg, keys, out) ==
    IF keys = << >> \/ out.unfinished THEN out
    ELSE LET o == LiveLoop(out.reg, Head(keys), Head(keys) \in DOMAIN out.reg, 1, out)
         IN  LiveKeyLoop(reg, Tail(keys), o)

\* dispatchEvent with handlers that call back into the protocol: the handlers
\* invoked, the registry they leave, and whether the loop was still running
DispatchEventLive(reg, event) ==
    LiveKeyLoop(reg, <<event.event, NoneKey>>,
                [reg |-> reg, log |-> << >>, unfinished |-> FALSE])

\* ------------------------------------------------- lines and their parsing
\* A line is a sequence of characters, as are the keys and values parsed from it.
END_DATA == <<"-", "-", "E", "N", "D", " ", "C", "O", "M", "M", "A", "N", "D", "-", "-">>
VERSION_PREFIX == <<"A", "s", "t", "e", "r", "i", "s", "k", " ", "C", "a", "l", "l", " ", "M", "a", "n", "a", "g", "e", "r">>
MultiLineKey == <<" ">>                       \* the key ' ' of the command output
ActionIdKey == <<"a", "c", "t", "i", "o", "n", "i", "d">>
EventKey == <<"e", "v", "e", "n", "t">>
ResponseKey == <<"r", "e", "s", "p", "o", "n", "s", "e">>
ChallengeKey == <<"c", "h", "a", "l", "l", "e", "n", "g", "e">>

IsSpace(c) == c \in {" ", "\t", "\n", "\r"}

RECURSIVE LStrip(_)
LStrip(t) == IF t # << >> /\ IsSpace(Head(t)) THEN LStrip(Tail(t)) ELSE t

RECURSIVE RStrip(_)
RStrip(t) ==
    IF t # << >> /\ IsSpace(t[Len(t)]) THEN RStrip(SubSeq(t, 1, Len(t) - 1)) ELSE t

\* str.strip()
Strip(t) == RStrip(LStrip(t))

\* str.endswith, str.startswith
EndsWith(t, suffix) ==
    Len(t) >= Len(suffix) /\ SubSeq(t, Len(t) - Len(suffix) + 1, Len(t)) = suffix
StartsWith(t, prefix) ==
    Len(t) >= Len(prefix) /\ SubSeq(t, 1, Len(prefix)) = prefix

UpperChars == <<"A", "B", "C", "D", "E", "F", "G", "H", "I", "J", "K", "L", "M", "N", "O", "P", "Q", "R", "S", "T", "U", "V", "W", "X", "Y", "Z">>
LowerChars == <<"a", "b", "c", "d", "e", "f", "g", "h", "i", "j", "k", "l", "m", "n", "o", "p", "q", "r", "s", "t", "u", "v", "w", "x", "y", "z">>

\* str.lower()
LowerChar(c) ==
    IF \E i \in DOMAIN UpperChars : UpperChars[i] = c
    THEN LowerChars[CHOOSE i \in DOMAIN UpperChars : UpperChars[i] = c]
    ELSE c
Lower(t) == [i \in DOMAIN t |-> LowerChar(t[i])]

RECURSIVE SplitAll(_, _, _)
\* str.split(sep) for a one-character sep: cur is the piece being read
SplitAll(t, sep, cur) ==
    IF t = << >> THEN <<cur>>
    ELSE IF Head(t) = sep THEN <<cur>> \o SplitAll(Tail(t), sep, << >>)
    ELSE SplitAll(Tail(t), sep, Append(cur, Head(t)))

\* the position of the first sep in t, 0 when there is none
FirstIndex(t, sep) ==
    IF \E i \in DOMAIN t : t[i] = sep
    THEN CHOOSE i \in DOMAIN t : t[i] = sep /\ \A j \in 1..(i - 1) : t[j] # sep
    ELSE 0

\* [l for l in line.split('\n') if (l and l != self.END_DATA)]
OutputLines(line) ==
    SelectSeq(SplitAll(line, "\n", << >>), LAMBDA l : l # << >> /\ l # END_DATA)

\* the body of the while loop of dispatchIncoming for one line; acc holds the
\* message built so far and amiVersion
ParseLine(acc, raw) ==
    LET line == Strip(raw)
    IN  IF line = << >> THEN acc
        ELSE IF EndsWith(line, END_DATA)
        THEN LET old == IF MultiLineKey \in DOMAIN acc.message
                        THEN acc.message[MultiLineKey] ELSE << >>
             IN  [acc EXCEPT !.message =
                      DictSet(@, MultiLineKey, old \o OutputLines(line))]
        ELSE IF StartsWith(line, VERSION_PREFIX)
        THEN [acc EXCEPT !.version =
                  Strip(SubSeq(line, Len(VERSION_PREFIX) + 2, Len(line)))]
        ELSE LET i == FirstIndex(line, ":")
             IN  IF i = 0
                 THEN \* ValueError on unpacking: the line is ignored
                      acc
                 ELSE [acc EXCEPT !.message =
                          DictSet(@, Strip(Lower(SubSeq(line, 1, i - 1))),
                                  Strip(SubSeq(line, i + 1, Len(line))))]

RECURSIVE ParseCache(_, _)
\* while self.messageCache: line = self.messageCache.pop(0) ...
ParseCache(cache, acc) ==
    IF cache = << >> THEN acc
    ELSE ParseCache(Tail(cache), ParseLine(acc, Head(cache)))

\* the names the model's messages use for events and responses, as characters
NameChars ==
    [n \in EventNames \cup Responses |->
        CASE n = "A" -> <<"A">>
          [] n = "T" -> <<"T">>
          [] n = "Success" -> <<"S", "u", "c", "c", "e", "s", "s">>
          [] n = "Error" -> <<"E", "r", "r", "o", "r">>
          [] n = "Pong" -> <<"P", "o", "n", "g">>]
OtherName == "~other~"

\* the value of a field of the parsed message, as the model's messages name it
FieldName(message, key) ==
    IF key \notin DOMAIN message THEN Absent
    ELSE IF \E n \in DOMAIN NameChars : NameChars[n] = message[key]
    THEN CHOOSE n \in DOMAIN NameChars : NameChars[n] = message[key]
    ELSE OtherName

\* the fields of the parsed message that dispatchIncoming and the callbacks read
ToMsg(message) ==
    [actionid |-> IF ActionIdKey \in DOMAIN message
                  THEN message[ActionIdKey] ELSE NoId,
     event |-> FieldName(message, EventKey),
     response |-> FieldName(message, ResponseKey),
     challenge |-> IF ChallengeKey \in DOMAIN message THEN "c" ELSE Absent]

\* ------------------------------------------ AMIFactory, the login sequence
\* loginDefer.callback(result) / loginDefer.errback(result) on the current
\* loginDefer; on a Deferred already called the call raises AlreadyCalledError and
\* changes nothing
ResolveDefer(f, state, result) ==
    LET d == Len(f.defers)
    IN  IF f.defers[d].state # "pending"
        THEN [f EXCEPT !.defers[d].calls = @ + 1]
        ELSE [f EXCEPT !.defers[d] = [state |-> state, result |-> result,
                                      conn |-> f.conn, calls |-> 1]]

\* self.transport.loseConnection()
LoseConnection(f) ==
    [f EXCEPT !.closed = TRUE, !.phase = IF @ = "open" THEN "closing" ELSE @]

\* onComplete of connectionMade (mutant: the ready future is never resolved)
OnCompleteNever(f, value) == f
OnComplete(f, value) ==
    IF ~IsDict(value) \/ value.msgs[1].response = Absent
    THEN \* message['response'] raises inside the callback: loginDefer is not touched
         f
    ELSE IF value.msgs[1].response # "Success"
         THEN ResolveDefer(LoseConnection(f), "failure",
                           AMICommandFailure(value.msgs[1]))
         ELSE [ResolveDefer(f, "success", Protocol)
                   EXCEPT !.authenticated = TRUE, !.lossesSinceAuth = 0]

\* onFailure of connectionMade (mutant: the transport is left open)
OnFailureKeepOpen(f, reason) == ResolveDefer(f, "failure", reason)
OnFailure(f, reason) == ResolveDefer(LoseConnection(f), "failure", reason)

\* sendResponse of loginChallengeResponse: does the reply carry a challenge
HasChallenge(value) == IsDict(value) /\ value.msgs[1].challenge # Absent

\* error.AMICommandFailure(challenge), raised by sendResponse
ChallengeFailure(value) ==
    IF IsDict(value) THEN AMICommandFailure(value.msgs[1])
    ELSE Val("AMICommandFailure", << >>)

\* md5(text) of sendResponse: hashlib accepts a str under Python 2 and raises
\* TypeError for one under Python 3
Md5Raises(f) == f.python3

\* the request of the login sequence: login() chains errorUnlessResponse,
\* loginChallengeResponse() first sends Challenge and chains sendResponse
LoginReq(f, aid, chain) ==
    [NewReq("single", aid, Absent, IF chain = "login" THEN "Success" ELSE "none", "none")
         EXCEPT !.conn = f.conn, !.chain = chain]

\* what the Deferred of the login sequence does once its request has been fired:
\* sendResponse (which sends the Login request), or onComplete / onFailure
LoginStep(f, before, after, reg, cnt, gen) ==
    LET r == f.loginReq
        same == [factory |-> f, reqs |-> after, reg |-> reg, count |-> cnt,
                 generated |-> gen]
    IN  IF r = 0 THEN same
        ELSE IF before[r].called \/ ~after[r].called THEN same
        ELSE LET req == after[r]
             IN  IF req.state = "failure"
                 THEN [same EXCEPT !.factory = OnFailure(f, req.result)]
                 ELSE IF req.chain = "login"
                 THEN [same EXCEPT !.factory = OnComplete(f, req.result)]
                 ELSE IF ~HasChallenge(req.result)
                 THEN [same EXCEPT !.factory = OnFailure(f, ChallengeFailure(req.result))]
                 ELSE IF Md5Raises(f)
                 THEN [same EXCEPT !.factory = OnFailure(f, TypeError)]
                 ELSE LET c == NextCount(cnt)
                          aid == FormatActionId(c)
                          n == Len(after) + 1
                      IN  [factory |-> [f EXCEPT !.loginReq = n],
                           reqs |-> Append(after,
                               [LoginReq(f, aid, "login") EXCEPT
                                    !.key = Digest(req.result.msgs[1].challenge, Secret)]),
                           reg |-> DictSet(reg, aid, n),
                           count |-> c,
                           generated |-> Append(gen, aid)]

\* AMIProtocol(): count, messageCache and the registries of a new instance
\* (mutant: the new connection goes on with the count of the last one)
InitCountKept(old) == old
InitCount(old) == 0
InitRegistry(old) == EmptyDict
InitCache(old) == << >>

\* self.on_reconnect(self.loginDefer), d being the new loginDefer (mutant: the
\* callback is handed the loginDefer of the connection that was lost)
OnReconnectStale(notified, d) == Append(notified, d - 1)
OnReconnect(notified, d) == Append(notified, d)

\* ReconnectingClientFactory.resetDelay
ResetDelay(retries) == 0

\* ------------------------------------------------------------- actions
EvTuples == {<<k>> : k \in EventKeys} \cup {<<"A", "T">>, <<"T", NoneKey>>}

RegisterEvent(evs, fn) ==
    /\ connected
    /\ eventTypeCallbacks' = RegisterLoop(eventTypeCallbacks, evs, fn)
    /\ regOps' = regOps + 1
    /\ last' = NoLast
    /\ UNCHANGED <<count, generated, actionIDCallbacks, reqs, connected, arrivals, lost>>
    /\ UNCHANGED <<messageCache, amiVersion, factory>>

\* was fn held under every name of evs (for function=None: was every name a key)
WasRegistered(reg, evs, fn) ==
    \A i \in DOMAIN evs :
        /\ evs[i] \in DOMAIN reg
        /\ fn # NoneFn => \E j \in DOMAIN reg[evs[i]] : reg[evs[i]][j] = fn

DeregisterEvent(evs, fn) ==
    /\ connected
    /\ LET out == DeregisterLoop(eventTypeCallbacks, evs, fn, TRUE)
       IN  /\ eventTypeCallbacks' = out.reg
           /\ last' = [NoLast EXCEPT !.op = "deregisterEvent", !.ret = out.success,
                                     !.found = WasRegistered(eventTypeCallbacks, evs, fn)]
    /\ regOps' = regOps + 1
    /\ UNCHANGED <<count, generated, actionIDCallbacks, reqs, connected, arrivals, lost>>
    /\ UNCHANGED <<messageCache, amiVersion, factory>>

\* sendMessage(message, responseCallback) for a message without an actionid: the id
\* is generated and the callback registered under it
Register(mode, stop, check, observer) ==
    /\ connected
    /\ LET c == NextCount(count)
           aid == FormatActionId(c)
           r == Len(reqs) + 1
       IN  /\ count' = c
           /\ generated' = Append(generated, aid)
           /\ actionIDCallbacks' = DictSet(actionIDCallbacks, aid, r)
           /\ reqs' = Append(reqs, [NewReq(mode, aid, stop, check, observer)
                                       EXCEPT !.conn = factory.conn])
           /\ last' = NoLast
    /\ UNCHANGED <<eventTypeCallbacks, connected, arrivals, regOps, lost>>
    /\ UNCHANGED <<messageCache, amiVersion, factory>>

\* sendDeferred(message), with errorUnlessResponse chained (check) or not, and an
\* error observer registered (registerError) or not
SendDeferred(check, observer) == Register("single", Absent, check, observer)

\* collectDeferred(message, stopEvent)
CollectDeferred(stopEvent) == Register("collect", stopEvent, "none", "none")

\* sendMessage(message, responseCallback) with a callback of the caller's
SendMessageCallback == Register("raw", Absent, "none", "none")

\* the try/except around callback(message) in dispatchIncoming: no exception of the
\* callback leaves it (mutant: the exception propagates)
DispatchPropagatesUncaught(raised) == raised
DispatchPropagates(raised) == FALSE

\* the messages the manager can send: it echoes only action ids it was sent
Incoming ==
    {Msg(a, e, r) : a \in {NoId} \cup {generated[i] : i \in DOMAIN generated},
                    e \in EventNames \cup {Absent},
                    r \in Responses \cup {Absent}}

\* self.actionIDCallbacks.get(key): the request whose callback is registered, 0
\* for None (mutant: the oldest registered callback, whatever its id)
CallbackOldest(reg, key) ==
    IF DOMAIN reg = {} THEN 0
    ELSE CHOOSE r \in {reg[k] : k \in DOMAIN reg} :
             \A q \in {reg[k] : k \in DOMAIN reg} : r <= q
Callback(reg, key) == IF key \in DOMAIN reg THEN reg[key] ELSE 0

\* dispatchIncoming, from the parsed message on: the callback registered for the
\* message's actionid, then the event handlers; block and parsed are the lines
\* consumed and the dict built from them, where the lines are modelled
Deliver(msg, rawRaises, block, parsed) ==
    /\ LET target == IF msg.actionid # NoId
                     THEN Callback(actionIDCallbacks, msg.actionid) ELSE 0
       IN  \E inv \in {IF target # 0
                       THEN Invoke(actionIDCallbacks, reqs, target, MsgVal(msg), rawRaises)
                       ELSE [reg |-> actionIDCallbacks, reqs |-> reqs,
                             raised |-> FALSE]} :
           \E fan \in {IF ~DispatchPropagates(inv.raised) /\ msg.event # Absent
                       THEN DispatchEvent(eventTypeCallbacks, msg)
                       ELSE NoFanout} :
           \E out \in {LoginStep(factory, reqs,
                                 [r \in DOMAIN inv.reqs |->
                                    IF /\ msg.actionid # NoId
                                       /\ inv.reqs[r].actionid = msg.actionid
                                       /\ inv.reqs[r].conn = factory.conn
                                    THEN [inv.reqs[r] EXCEPT !.seen = Append(@, msg)]
                                    ELSE inv.reqs[r]],
                                 inv.reg, count, generated)} :
               /\ actionIDCallbacks' = out.reg
               /\ reqs' = out.reqs
               /\ factory' = out.factory
               /\ count' = out.count
               /\ generated' = out.generated
               /\ last' = [NoLast EXCEPT !.op = "dispatch", !.msg = msg,
                                         !.target = target, !.raised = inv.raised,
                                         !.fanout = fan.log,
                                         !.escaped = DispatchPropagates(inv.raised)
                                                     \/ fan.escaped,
                                         !.block = block, !.parsed = parsed]
    /\ arrivals' = arrivals + 1
    /\ UNCHANGED <<eventTypeCallbacks, connected, regOps, lost>>

\* the arrival of the lines of one whole block whose parse is msg
DispatchIncoming(msg, rawRaises) ==
    /\ connected
    /\ Deliver(msg, rawRaises, << >>, EmptyDict)
    /\ UNCHANGED <<messageCache, amiVersion>>

\* dispatchIncoming of a message that bears an event and no actionid, with
\* handlers that call back into the protocol
DispatchReentrant(msg) ==
    /\ connected
    /\ msg.actionid = NoId
    /\ msg.event # Absent
    /\ \E fan \in {DispatchEventLive(eventTypeCallbacks, msg)} :
           /\ eventTypeCallbacks' = fan.reg
           /\ last' = [NoLast EXCEPT !.op = "dispatch", !.msg = msg,
                                     !.fanout = fan.log,
                                     !.unfinished = fan.unfinished]
    /\ arrivals' = arrivals + 1
    /\ UNCHANGED <<count, generated, actionIDCallbacks, reqs, connected, regOps, lost,
                   messageCache, amiVersion, factory>>

\* if not line.strip(): the lines that make lineReceived call dispatchIncoming
\* (mutant: every line does)
DispatchesOnAny(line) == TRUE
DispatchesOn(line) == Strip(line) = << >>

\* lineReceived(line): the line joins messageCache; a blank line has
\* dispatchIncoming parse and empty the cache and dispatch the message
LineReceived(line, rawRaises) ==
    /\ connected
    /\ LET cache == Append(messageCache, line)
       IN  IF ~DispatchesOn(line)
           THEN /\ messageCache' = cache
                /\ last' = [NoLast EXCEPT !.op = "lineReceived"]
                /\ UNCHANGED <<count, generated, actionIDCallbacks, eventTypeCallbacks,
                               reqs, connected, arrivals, regOps, lost, amiVersion,
                               factory>>
           ELSE \E p \in {ParseCache(cache, [message |-> EmptyDict,
                                             version |-> amiVersion])} :
                    /\ messageCache' = << >>
                    /\ amiVersion' = p.version
                    /\ Deliver(ToMsg(p.message), rawRaises, cache, p.message)

RECURSIVE SortedSeq(_)
\* the elements of a finite set of numbers, ascending
SortedSeq(S) ==
    IF S = {} THEN << >>
    ELSE LET m == CHOOSE x \in S : \A y \in S : x <= y
         IN  <<m>> \o SortedSeq(S \ {m})

\* list(self.actionIDCallbacks.items()): the callbacks, in insertion order
Snapshot(reg) == SortedSeq({reg[k] : k \in DOMAIN reg})

\* the try/except around callable(...) in connectionLost: no exception of a callable
\* leaves the loop (mutant: the exception propagates and ends connectionLost)
LostPropagatesUncaught(raised) == raised
LostPropagates(raised) == FALSE

RECURSIVE LostLoop(_, _, _, _, _)
\* for key, callable in list(self.actionIDCallbacks.items()): callable(ConnectionDone)
LostLoop(snap, reg, rqs, raisedSet, rawRaises) ==
    IF snap = << >>
    THEN [reg |-> reg, reqs |-> rqs, raised |-> raisedSet, aborted |-> FALSE]
    ELSE LET inv == Invoke(reg, rqs, Head(snap), ConnectionDone, rawRaises)
         IN  IF LostPropagates(inv.raised)
             THEN [reg |-> inv.reg, reqs |-> inv.reqs,
                   raised |-> raisedSet \cup {Head(snap)}, aborted |-> TRUE]
             ELSE LostLoop(Tail(snap), inv.reg, inv.reqs,
                           IF inv.raised THEN raisedSet \cup {Head(snap)} ELSE raisedSet,
                           rawRaises)

\* the number of handler registrations a registry holds
RECURSIVE Subscriptions(_)
Subscriptions(reg) ==
    IF DOMAIN reg = {} THEN 0
    ELSE LET k == CHOOSE x \in DOMAIN reg : TRUE
         IN  Len(reg[k]) + Subscriptions(DictDel(reg, k))

\* self.actionIDCallbacks.clear() at the end of connectionLost (mutant: the
\* registry is left as the callbacks left it)
ClearCallbacksNot(reg) == reg
ClearCallbacks(reg) == EmptyDict

\* connectionLost(reason)
ConnectionLost(rawRaises) ==
    /\ connected
    /\ LET snap == Snapshot(actionIDCallbacks)
       IN  \E out \in {LostLoop(snap, actionIDCallbacks, reqs, {}, rawRaises)} :
           \E login \in {LoginStep(factory, reqs, out.reqs, out.reg, count, generated)} :
               /\ reqs' = login.reqs
               /\ factory' = login.factory
               /\ actionIDCallbacks' = IF out.aborted THEN out.reg
                                       ELSE ClearCallbacks(out.reg)
               /\ eventTypeCallbacks' = IF out.aborted THEN eventTypeCallbacks
                                        ELSE EmptyDict
               /\ lost' = [pending |-> {snap[i] : i \in DOMAIN snap},
                           raised |-> out.raised,
                           subs |-> Subscriptions(eventTypeCallbacks)]
    /\ connected' = FALSE
    /\ last' = [NoLast EXCEPT !.op = "connectionLost"]
    /\ UNCHANGED <<count, generated, arrivals, regOps, messageCache, amiVersion>>

\* cleanup(result, actionid) called once more for a request whose own chain has
\* completed it or whose connection is lost: del, with KeyError ignored
CleanupAgain(r) ==
    /\ r \in DOMAIN reqs
    /\ reqs[r].mode \in {"single", "collect"}
    /\ reqs[r].state # "pending" \/ ~connected
    /\ actionIDCallbacks' = Cleanup(actionIDCallbacks, reqs[r].actionid)
    /\ last' = [NoLast EXCEPT !.op = "cleanup", !.raised = FALSE]
    /\ UNCHANGED <<count, generated, eventTypeCallbacks, reqs, connected, arrivals,
                   regOps, lost, messageCache, amiVersion, factory>>

\* AMIFactory.login(): a new loginDefer, and the connector starts to connect
FactoryLogin ==
    /\ factory.phase = "constructed"
    /\ factory' = [factory EXCEPT !.phase = "connecting", !.defers = <<NewDefer>>]
    /\ last' = [NoLast EXCEPT !.op = "login"]
    /\ UNCHANGED <<count, generated, actionIDCallbacks, eventTypeCallbacks, reqs,
                   connected, arrivals, regOps, lost, messageCache, amiVersion>>

\* AMIFactory.clientConnectionFailed: the override reports to loginDefer and does
\* not call retry
ClientConnectionFailed ==
    /\ factory.phase = "connecting"
    /\ factory' = [ResolveDefer(factory, "failure", ConnectError)
                      EXCEPT !.phase = "stopped"]
    /\ last' = [NoLast EXCEPT !.op = "clientConnectionFailed"]
    /\ UNCHANGED <<count, generated, actionIDCallbacks, eventTypeCallbacks, reqs,
                   connected, arrivals, regOps, lost, messageCache, amiVersion>>

\* buildProtocol, which constructs a new AMIProtocol, and its connectionMade:
\* resetDelay, then login() or loginChallengeResponse()
ConnectionMade ==
    /\ factory.phase = "connecting"
    /\ LET f == [factory EXCEPT !.phase = "open", !.conn = @ + 1,
                                !.retries = ResetDelay(@), !.closed = FALSE,
                                !.authenticated = FALSE]
           c == NextCount(InitCount(count))
           aid == FormatActionId(c)
           n == Len(reqs) + 1
       IN  /\ count' = c
           /\ generated' = <<aid>>
           /\ actionIDCallbacks' = DictSet(InitRegistry(actionIDCallbacks), aid, n)
           /\ eventTypeCallbacks' = InitRegistry(eventTypeCallbacks)
           /\ messageCache' = InitCache(messageCache)
           /\ amiVersion' = NoVersion
           /\ reqs' = Append(reqs, LoginReq(f, aid, IF f.plaintext THEN "login"
                                                   ELSE "challenge"))
           /\ factory' = [f EXCEPT !.loginReq = n]
    /\ connected' = TRUE
    /\ last' = [NoLast EXCEPT !.op = "connectionMade"]
    /\ UNCHANGED <<arrivals, regOps, lost>>

\* self.loginDefer = defer.Deferred() of clientConnectionLost (mutant: the
\* Deferred of the connection before is kept)
RenewLoginDeferNot(defers) == defers
RenewLoginDefer(defers) == Append(defers, NewDefer)

\* AMIFactory.clientConnectionLost, which the connector calls once the protocol's
\* connectionLost has returned: retry, a new loginDefer, on_reconnect(loginDefer)
ClientConnectionLost ==
    /\ ~connected
    /\ factory.phase \in {"open", "closing"}
    /\ factory' = [factory EXCEPT !.phase = "connecting", !.retries = @ + 1,
                                  !.losses = @ + 1, !.lossesSinceAuth = @ + 1,
                                  !.defers = RenewLoginDefer(@),
                                  !.notified = IF factory.onReconnect
                                               THEN OnReconnect(@, Len(factory.defers) + 1)
                                               ELSE @,
                                  !.loginReq = 0]
    /\ last' = [NoLast EXCEPT !.op = "clientConnectionLost"]
    /\ UNCHANGED <<count, generated, actionIDCallbacks, eventTypeCallbacks, reqs,
                   connected, arrivals, regOps, lost, messageCache, amiVersion>>

\* A request with its content is a sequence of <<key, value>> pairs: the items of
\* a list message, or those of a dict message in the dict's order.
\* dict([(k.lower(), v) for (k, v) in message.items()]): a later pair with the
\* same lowered key replaces the value and keeps the place of the earlier one
RECURSIVE LowerDict(_, _)
LowerDict(pairs, acc) ==
    IF pairs = << >> THEN acc
    ELSE LET k == Lower(Head(pairs)[1])
             v == Head(pairs)[2]
         IN  IF \E i \in DOMAIN acc : acc[i][1] = k
             THEN LowerDict(Tail(pairs),
                            [i \in DOMAIN acc |->
                               IF acc[i][1] = k THEN <<k, v>> ELSE acc[i]])
             ELSE LowerDict(Tail(pairs), Append(acc, <<k, v>>))

\* the positions of the items that name an actionid
IdItems(message) == {i \in DOMAIN message : Lower(message[i][1]) = ActionIdKey}

\* '%s: %s' % (str(key.lower()), str(value))
\* (mutant: the colon is left out)
RenderLineBare(item) == Lower(item[1]) \o <<" ">> \o item[2]
RenderLine(item) == Lower(item[1]) \o <<":", " ">> \o item[2]

\* the lines sendMessage hands to sendLine: one per item, then the empty line
WireLines(message) ==
    [i \in 1..(Len(message) + 1) |->
        IF i <= Len(message) THEN RenderLine(message[i]) ELSE << >>]

\* the registry as it is when the lines are written: the callback has been
\* assigned before the first sendLine (mutant: it is assigned after the last)
RegistryAtWriteLate(before, after) == before
RegistryAtWrite(before, after) == after

\* sendDeferred(message) for a message with content: sendMessage lowers the keys of
\* a dict, takes the actionid the message names or generates and adds one,
\* registers df.callback under it and writes the lines
SendRequest(form, pairs) ==
    /\ connected
    /\ LET message == IF form = "dict" THEN LowerDict(pairs, << >>) ELSE pairs
           named == IdItems(message) # {}
           c == IF named THEN count ELSE NextCount(count)
           aid == IF named
                  THEN message[CHOOSE i \in IdItems(message) :
                                   \A j \in IdItems(message) : i <= j][2]
                  ELSE FormatActionId(c)
           full == IF named THEN message ELSE Append(message, <<ActionIdKey, aid>>)
           r == Len(reqs) + 1
           reg == DictSet(actionIDCallbacks, aid, r)
           lines == WireLines(full)
       IN  /\ count' = c
           /\ generated' = IF named THEN generated ELSE Append(generated, aid)
           /\ actionIDCallbacks' = reg
           /\ reqs' = Append(reqs, [NewReq("single", aid, Absent, "none", "none")
                                       EXCEPT !.conn = factory.conn])
           /\ last' = [NoLast EXCEPT
                          !.op = "sendMessage", !.form = form, !.request = pairs,
                          !.actionid = aid,
                          !.sent = [i \in DOMAIN lines |->
                                      [line |-> lines[i],
                                       registered |->
                                           aid \in DOMAIN RegistryAtWrite(
                                                      actionIDCallbacks, reg)]]]
    /\ UNCHANGED <<eventTypeCallbacks, connected, arrivals, regOps, lost>>
    /\ UNCHANGED <<messageCache, amiVersion, factory>>

\* sendMessage(message): no callback, only an id is generated
SendMessage ==
    /\ connected
    /\ count' = NextCount(count)
    /\ generated' = Append(generated, FormatActionId(NextCount(count)))
    /\ last' = NoLast
    /\ UNCHANGED <<actionIDCallbacks, eventTypeCallbacks, reqs, connected, arrivals,
                   regOps, lost, messageCache, amiVersion, factory>>

Checks == {"none"} \cup Expecteds
Observers == {"none", "ok", "raise"}
Replies == {m \in Incoming : m.actionid # NoId /\ m.event = Absent}

\* the keys and values callers build requests from
RoundKeys == {<<"a">>, <<"A">>, <<"B">>, <<"c", ":", "d">>, <<" ", "e">>}
RoundValues == {<<"x">>, <<"x", " ">>, << >>, END_DATA}
RoundItems == {<<k, v>> : k \in RoundKeys, v \in RoundValues}

RECURSIVE SeqsUpTo(_, _)
\* the sequences over S of length at most n
SeqsUpTo(S, n) ==
    IF n = 0 THEN {<< >>}
    ELSE LET shorter == SeqsUpTo(S, n - 1)
         IN  shorter \cup {Append(q, x) : q \in shorter, x \in S}

\* the messages callers pass: any list of items, and dicts, whose keys differ
RoundMessages ==
    {<<"list", q>> : q \in SeqsUpTo(RoundItems, MaxPairs)}
    \cup {<<"dict", q>> : q \in {p \in SeqsUpTo(RoundItems, MaxPairs) :
                                   \A i, j \in DOMAIN p : i # j => p[i][1] # p[j][1]}}

\* The program: every operation, within the bounds.
Next ==
    \/ /\ Len(reqs) < MaxReq
       /\ count < MaxCount
       /\ \/ \E check \in Checks, observer \in Observers : SendDeferred(check, observer)
          \/ \E stopEvent \in StopEvents : CollectDeferred(stopEvent)
          \/ SendMessageCallback
    \/ /\ count < MaxCount
       /\ SendMessage
    \/ /\ arrivals < MaxArrive
       /\ \E msg \in Incoming, rawRaises \in BOOLEAN : DispatchIncoming(msg, rawRaises)
    \/ /\ regOps < MaxRegOps
       /\ \/ \E evs \in EvTuples, fn \in Handlers : RegisterEvent(evs, fn)
          \/ \E evs \in EvTuples, fn \in Handlers \cup {NoneFn} : DeregisterEvent(evs, fn)
    \/ \E rawRaises \in BOOLEAN : ConnectionLost(rawRaises)
    \/ FactoryLogin
    \/ ClientConnectionFailed
    \/ ConnectionMade
    \/ ClientConnectionLost
    \/ /\ Len(reqs) < MaxReq
       /\ \E m \in RoundMessages : SendRequest(m[1], m[2])
    \/ \E r \in DOMAIN reqs : CleanupAgain(r)
    \/ /\ arrivals < MaxArrive
       /\ \E e \in EventNames : DispatchReentrant(Msg(NoId, e, Absent))

Spec == Init /\ [][Next]_vars

\* The program driven by callers that send requests of each kind and subscribe
\* handlers; a request may be completed before the connection is lost.
NextLoss ==
    \/ /\ Len(reqs) < MaxReq
       /\ \/ \E check \in {"none", "Success"}, observer \in {"none", "ok"} :
                SendDeferred(check, observer)
          \/ \E stopEvent \in StopEvents : CollectDeferred(stopEvent)
          \/ SendMessageCallback
    \/ /\ regOps < MaxRegOps
       /\ \E k \in {"T", NoneKey} : RegisterEvent(<<k>>, "h1")
    \/ /\ arrivals < MaxLossArrive
       /\ \E msg \in {m \in Replies : m.response \in {"Success", "Error"}},
             rawRaises \in BOOLEAN : DispatchIncoming(msg, rawRaises)
    \/ \E rawRaises \in BOOLEAN : ConnectionLost(rawRaises)

SpecLoss == Init /\ [][NextLoss]_vars

\* The program driven by callers of collectDeferred and by the messages bearing
\* their ids.
NextCollect ==
    \/ /\ Len(reqs) < MaxCollectReq
       /\ \E stopEvent \in StopEvents : CollectDeferred(stopEvent)
    \/ /\ arrivals < MaxArrive
       /\ \E msg \in {m \in Incoming : m.response \in {Absent, "Error"}} :
             DispatchIncoming(msg, FALSE)
    \/ ConnectionLost(FALSE)

SpecCollect == Init /\ [][NextCollect]_vars

\* The program driven by callers of sendDeferred and by the replies bearing their ids.
NextSingle ==
    \/ /\ Len(reqs) < MaxSingleReq
       /\ \E check \in Checks, observer \in {"none", "raise"} :
             SendDeferred(check, observer)
    \/ /\ arrivals < MaxSingleArrive
       /\ \E msg \in Replies : DispatchIncoming(msg, FALSE)
    \/ ConnectionLost(FALSE)

SpecSingle == Init /\ [][NextSingle]_vars

\* The program driven by subscribers, by a request of each kind and by messages
\* with and without an id and an event.
NextEvents ==
    \/ /\ Len(reqs) < MaxEventsReq
       /\ \/ SendDeferred("none", "none")
          \/ \E stopEvent \in StopEvents : CollectDeferred(stopEvent)
          \/ SendMessageCallback
    \/ /\ regOps < MaxEventsRegOps
       /\ \E evs \in {<<"T">>, <<NoneKey>>, <<"T", NoneKey>>}, fn \in Handlers :
             RegisterEvent(evs, fn)
    \/ /\ arrivals < MaxEventsArrive
       /\ \E msg \in {m \in Incoming : m.response \in {"Success", "Error"}},
             rawRaises \in BOOLEAN : DispatchIncoming(msg, rawRaises)

SpecEvents == Init /\ [][NextEvents]_vars

\* The program driven by callers that only generate ids, with or without a callback.
NextIds ==
    \/ /\ count < MaxCount
       /\ \/ SendMessage
          \/ Len(reqs) < MaxReq /\ SendMessageCallback
    \/ \E rawRaises \in BOOLEAN : ConnectionLost(rawRaises)

SpecIds == Init /\ [][NextIds]_vars

\* the lines the manager sends: a header, command output line by line, and
\* command output as one line holding newlines
FooBar == <<"f", "o", "o", ":", " ", "b", "a", "r">>
Line1 == <<"l", "i", "n", "e", "1">>
Line2End == <<"l", "i", "n", "e", "2", "-", "-", "E", "N", "D", " ", "C", "O", "M", "M", "A", "N", "D", "-", "-">>
OutputEnd == <<"l", "i", "n", "e", "1", "\n", "l", "i", "n", "e", "2", "\n", "-", "-", "E", "N", "D", " ", "C", "O", "M", "M", "A", "N", "D", "-", "-">>
FramerLines == {FooBar, Line1, Line2End, OutputEnd, << >>}

\* An AMIFactory after construction, in each configuration and under each of the
\* Python versions the module supports; no connection yet.
InitFactory ==
    /\ messageCache = << >>
    /\ amiVersion = NoVersion
    /\ factory \in {[NewFactory(p, o) EXCEPT !.python3 = v] :
                       p \in BOOLEAN, o \in BOOLEAN, v \in BOOLEAN}
    /\ count = 0
    /\ generated = << >>
    /\ actionIDCallbacks = EmptyDict
    /\ eventTypeCallbacks = EmptyDict
    /\ reqs = << >>
    /\ connected = FALSE
    /\ arrivals = 0
    /\ regOps = 0
    /\ last = NoLast
    /\ lost = [pending |-> {}, raised |-> {}, subs |-> 0]

\* the messages the manager sends in answer to the login sequence and to the
\* caller's requests, and an event of its own
FactoryIncoming ==
    {ChallengeMsg(generated[i], r, ch) :
        i \in DOMAIN generated, r \in {"Success", "Error"}, ch \in {Absent, "c"}}
    \cup {Msg(NoId, "T", Absent)}

\* the requests the caller made, the login sequence's own left out
UserReqs == {r \in DOMAIN reqs : reqs[r].chain = "none"}

\* The factory's life: login(), connections made, lost and retried, and the login
\* sequence on each of them.
NextFactory ==
    \/ FactoryLogin
    \/ ClientConnectionFailed
    \/ /\ factory.conn < MaxConn
       /\ ConnectionMade
    \/ /\ arrivals < MaxFactoryArrive
       /\ \E msg \in FactoryIncoming : DispatchIncoming(msg, FALSE)
    \/ ConnectionLost(FALSE)
    \/ ClientConnectionLost

SpecFactory == InitFactory /\ [][NextFactory]_vars

\* the replies to the login sequence that let it succeed, replies to the caller's
\* requests, and an event of the manager's own
FreshIncoming ==
    {ChallengeMsg(generated[i], "Success", "c") : i \in DOMAIN generated}
    \cup {Msg(NoId, "T", Absent)}

\* the handler the caller subscribes on the n-th connection
ConnHandler(n) == IF n = 1 THEN "h1" ELSE "h2"

\* Connections that log in, on which the caller sends requests and subscribes, and
\* which are lost, also in the middle of a block, and made again.
NextFresh ==
    \/ FactoryLogin
    \/ /\ factory.conn < MaxFreshConn
       /\ ConnectionMade
    \/ /\ connected /\ factory.authenticated
       /\ \/ /\ Cardinality(UserReqs) < MaxFreshUser
             /\ SendDeferred("none", "none")
          \/ /\ regOps < MaxFreshRegOps
             /\ \E k \in {"T", NoneKey} : RegisterEvent(<<k>>, ConnHandler(factory.conn))
    \/ /\ arrivals < MaxFreshArrive
       /\ messageCache = << >>
       /\ \E msg \in FreshIncoming : DispatchIncoming(msg, FALSE)
    \/ /\ Len(messageCache) < MaxFreshLines
       /\ LineReceived(FooBar, FALSE)
    \/ ConnectionLost(FALSE)
    \/ ClientConnectionLost

SpecFresh == InitFactory /\ [][NextFresh]_vars

\* The protocol fed line by line.
NextFramer ==
    /\ arrivals < MaxFramerBlocks
    /\ \E line \in FramerLines :
          /\ Len(messageCache) < MaxBlockLines \/ line = << >>
          /\ LineReceived(line, FALSE)

SpecFramer == Init /\ [][NextFramer]_vars

\* The program driven by subscribers whose handlers call back into the protocol
\* and by the manager's events; a dispatch that does not end leaves nothing to run.
NextReentrant ==
    /\ ~last.unfinished
    /\ \/ /\ regOps < MaxReentrantOps
          /\ \E k \in {"T", NoneKey}, fn \in ReentrantHandlers : RegisterEvent(<<k>>, fn)
       \/ /\ arrivals < MaxReentrantArrive
          /\ DispatchReentrant(Msg(NoId, "T", Absent))

SpecReentrant == Init /\ [][NextReentrant]_vars

\* lines of several blocks: a header, a line without a colon, an empty line and
\* a line of one space
FramingLines == {FooBar, Line1, << >>, <<" ">>}

\* The protocol fed the lines of several blocks.
NextFraming ==
    /\ arrivals < MaxFramingBlocks
    /\ \E line \in FramingLines :
          /\ Len(messageCache) < MaxFramingLines \/ DispatchesOn(line)
          /\ LineReceived(line, FALSE)

SpecFraming == Init /\ [][NextFraming]_vars

\* The program driven by subscribers, which may subscribe a handler again, and by
\* the manager's events.
NextRegister ==
    \/ /\ regOps < MaxRegisterOps
       /\ \E evs \in {<<"T">>, <<NoneKey>>, <<"T", NoneKey>>}, fn \in Handlers :
             RegisterEvent(evs, fn)
    \/ /\ arrivals < MaxRegisterArrive
       /\ \E e \in EventNames : DispatchIncoming(Msg(NoId, e, Absent), FALSE)

SpecRegister == Init /\ [][NextRegister]_vars

\* The program driven by callers that subscribe and unsubscribe handlers.
NextDeregister ==
    /\ regOps < MaxDeregOps
    /\ \/ \E evs \in {<<"T">>, <<"T", NoneKey>>}, fn \in Handlers : RegisterEvent(evs, fn)
       \/ \E evs \in {<<"T">>, <<"T", NoneKey>>}, fn \in Handlers \cup {NoneFn} :
             DeregisterEvent(evs, fn)

SpecDeregister == Init /\ [][NextDeregister]_vars

\* The program driven by callers of sendDeferred and collectDeferred whose requests
\* are completed by replies, by events or by the loss of the connection, and who
\* call cleanup again afterwards.
NextCleanup ==
    \/ /\ Len(reqs) < MaxCleanupReq
       /\ \/ SendDeferred("none", "none")
          \/ CollectDeferred("T")
    \/ /\ arrivals < MaxCleanupArrive
       /\ \E msg \in {m \in Incoming : m.actionid # NoId /\ m.event # "A"} :
             DispatchIncoming(msg, FALSE)
    \/ ConnectionLost(FALSE)
    \/ \E r \in DOMAIN reqs : CleanupAgain(r)

SpecCleanup == Init /\ [][NextCleanup]_vars

\* the actionids callers put into their requests: one of their own making, and
\* one of the form the protocol generates
SuppliedIds == {<<"x">>, FormatActionId(1)}

\* requests that name their actionid, as a list and as a dict, and one that
\* leaves it to the protocol
DuplicateMessages ==
    {<<form, << <<<<"A", "c", "t", "i", "o", "n", "I", "D">>, id>> >> >> :
        form \in {"list", "dict"}, id \in SuppliedIds}
    \cup {<<"dict", << >> >>}

\* the replies the manager sends: it echoes the actionid of a request it was sent
DuplicateIncoming ==
    {Msg(reqs[r].actionid, Absent, resp) : r \in DOMAIN reqs, resp \in {"Success", "Error"}}

\* The program driven by callers that name the actionid of their requests, by the
\* replies to them and by the loss of the connection.
NextDuplicate ==
    \/ /\ Len(reqs) < MaxDuplicateReq
       /\ \E m \in DuplicateMessages : SendRequest(m[1], m[2])
    \/ /\ arrivals < MaxDuplicateArrive
       /\ \E msg \in DuplicateIncoming : DispatchIncoming(msg, FALSE)
    \/ ConnectionLost(FALSE)

SpecDuplicate == Init /\ [][NextDuplicate]_vars

\* The program driven by a caller that sends its first request, with content.
NextRound ==
    \/ /\ reqs = << >>
       /\ \E m \in RoundMessages : SendRequest(m[1], m[2])
    \/ ConnectionLost(FALSE)

SpecRound == Init /\ [][NextRound]_vars

\* The program with several requests in flight, answered in any order.
NextOrder ==
    \/ /\ Len(reqs) < MaxOrderReq
       /\ \/ SendDeferred("none", "none")
          \/ \E stopEvent \in StopEvents : CollectDeferred(stopEvent)
    \/ /\ arrivals < MaxOrderArrive
       /\ \E msg \in {m \in Incoming : m.actionid # NoId /\ m.response = "Success"
                                        /\ m.event \in {Absent, "T"}} :
             DispatchIncoming(msg, FALSE)

SpecOrder == Init /\ [][NextOrder]_vars

\* ------------------------------------------------------------- claims
Reqs == DOMAIN reqs
OfMode(mode) == {r \in Reqs : reqs[r].mode = mode}
Min(S) == CHOOSE x \in S : \A y \in S : x <= y

\* C1 (as claimed): once the connection is lost, every sendDeferred request that
\* was pending has failed with the connection-closed error.
C1_SinglesFailOnLoss ==
    ~connected =>
        \A r \in lost.pending \cap OfMode("single") :
            reqs[r].state = "failure" /\ reqs[r].result = ConnectionDone

\* C2 (as claimed): once the connection is lost, every collectDeferred request that
\* was pending has failed with the connection-closed error.
C2_CollectFailsOnLoss ==
    ~connected =>
        \A r \in lost.pending \cap OfMode("collect") :
            reqs[r].state = "failure" /\ reqs[r].result = ConnectionDone

\* C3: after connectionLost both registries are empty, whatever was pending or
\* subscribed and whichever callbacks raised.
C3_RegistriesEmptyAfterLoss ==
    ~connected => DOMAIN actionIDCallbacks = {} /\ DOMAIN eventTypeCallbacks = {}

C3_Witness ==
    /\ ~connected
    /\ Cardinality(lost.pending) >= 2
    /\ lost.raised # {}
    /\ lost.subs >= 2

\* the arrivals bearing the id of request r at which a collecting request still
\* pending meets its terminal event in a message that is not an Error response
GoodStops(r) ==
    {i \in DOMAIN reqs[r].seen :
        /\ reqs[r].seen[i].event = reqs[r].stopEvent
        /\ \A j \in 1..i : reqs[r].seen[j].response # "Error"}

\* C4 (as claimed): a collecting request is resolved successfully exactly when a
\* message bearing its id with the terminal event has arrived, with every message
\* bearing the id up to and including the first such message.
C4_ResolvesOnTerminalEvent ==
    \A r \in OfMode("collect") :
        LET stops == {i \in DOMAIN reqs[r].seen :
                         reqs[r].seen[i].event = reqs[r].stopEvent}
        IN  /\ reqs[r].state = "success" <=> stops # {}
            /\ stops # {} =>
                   reqs[r].result = ListVal(SubSeq(reqs[r].seen, 1, Min(stops)))

\* C4 (amended): a collecting request is resolved successfully exactly when a
\* message bearing its id with the terminal event and without response = "Error"
\* has arrived before any message bearing the id with response = "Error"; the
\* result is every message bearing the id up to and including the first such
\* message, in arrival order.
C4_ResolvesOnTerminalEventUnlessError ==
    \A r \in OfMode("collect") :
        /\ reqs[r].state = "success" <=> GoodStops(r) # {}
        /\ GoodStops(r) # {} =>
               reqs[r].result = ListVal(SubSeq(reqs[r].seen, 1, Min(GoodStops(r))))

C4_Witness ==
    \E r \in OfMode("collect") :
        /\ reqs[r].state = "success"
        /\ Len(reqs[r].result.msgs) = 3
        /\ reqs[r].result.msgs[1].event = "A"
        /\ reqs[r].result.msgs[2].event = Absent

\* the arrivals bearing the id of request r at which a collecting request still
\* pending meets an Error response
PendingErrors(r) ==
    {i \in DOMAIN reqs[r].seen :
        /\ reqs[r].seen[i].response = "Error"
        /\ \A j \in 1..(i - 1) :
              /\ reqs[r].seen[j].response # "Error"
              /\ reqs[r].seen[j].event # reqs[r].stopEvent}

\* C5: a pending collecting request fails with the Error message alone, also when
\* that message carries the terminal event; what was accumulated is not delivered
\* and onEvent is not invoked with any later message.
C5_ErrorFailsCollecting ==
    \A r \in OfMode("collect") :
        \A i \in PendingErrors(r) :
            /\ reqs[r].state = "failure"
            /\ reqs[r].result = AMICommandFailure(reqs[r].seen[i])
            /\ reqs[r].got = [k \in 1..i |-> MsgVal(reqs[r].seen[k])]

C5_Witness ==
    \E r \in OfMode("collect") :
        /\ Len(reqs[r].seen) = 3
        /\ reqs[r].seen[2].response = "Error"
        /\ reqs[r].seen[2].event = reqs[r].stopEvent
        /\ reqs[r].state = "failure"
        /\ Len(reqs[r].cache) = 1
        /\ Len(reqs[r].got) = 2

\* C6: a sendDeferred request is fired with the first message bearing its id and
\* with no other; a success carries that message, and no request's callback is
\* invoked with a message that bears another id.
C6_FirstReplyResolvesSingle ==
    /\ \A r \in OfMode("single") :
           reqs[r].seen # << >> =>
               /\ reqs[r].got = <<MsgVal(reqs[r].seen[1])>>
               /\ reqs[r].state # "pending"
               /\ reqs[r].state = "success" => reqs[r].result = MsgVal(reqs[r].seen[1])
    /\ \A q \in Reqs : \A k \in DOMAIN reqs[q].got :
           IsDict(reqs[q].got[k]) => reqs[q].got[k].msgs[1].actionid = reqs[q].actionid

C6_Witness ==
    \E r \in OfMode("single") :
        /\ Len(reqs[r].seen) = 2
        /\ reqs[r].state = "success"
        /\ reqs[r].seen[2] # reqs[r].seen[1]

\* C7 (as claimed): a sendDeferred request whose reply has response = "Error" is
\* resolved as a failure.
C7_ErrorReplyFailsSingle ==
    \A r \in OfMode("single") :
        (/\ reqs[r].got # << >>
         /\ IsDict(reqs[r].got[1])
         /\ reqs[r].got[1].msgs[1].response = "Error") => reqs[r].state = "failure"

\* C8: errorUnlessResponse, chained with expected value E on a reply that reaches
\* it, fails with AMICommandFailure carrying the message when the reply's response
\* differs from E and passes the message on unchanged when it equals E.
C8_ErrorUnlessResponse ==
    \A r \in OfMode("single") :
        (/\ reqs[r].check # "none"
         /\ reqs[r].got # << >>
         /\ IsDict(reqs[r].got[1])
         /\ reqs[r].got[1].msgs[1].response # Absent
         /\ reqs[r].result # ObserverError) =>
            LET m == reqs[r].got[1].msgs[1]
            IN  IF m.response = reqs[r].check
                THEN reqs[r].state = "success" /\ reqs[r].result = MsgVal(m)
                ELSE reqs[r].state = "failure" /\ reqs[r].result = AMICommandFailure(m)

C8_Witness ==
    /\ \E r \in OfMode("single") :
           /\ reqs[r].check = "Pong"
           /\ reqs[r].seen # << >>
           /\ reqs[r].state = "success"
           /\ reqs[r].result = MsgVal(reqs[r].seen[1])
    /\ \E r \in OfMode("single") :
           /\ reqs[r].check = "Success"
           /\ reqs[r].seen # << >>
           /\ reqs[r].result = AMICommandFailure(reqs[r].seen[1])
           /\ reqs[r].seen[1].response = "Error"

\* C9: the ids generated on one connection are pairwise distinct and the counter
\* has advanced once per id.
C9_ActionIdsDistinct ==
    /\ count = Len(generated)
    /\ \A i, j \in DOMAIN generated : i # j => generated[i] # generated[j]

C9_Witness ==
    /\ Len(generated) >= 11
    /\ Len(reqs) >= 2

\* the handlers subscribed to an event name and to the wildcard, in invocation order
Subscribers(name) ==
    (IF name \in DOMAIN eventTypeCallbacks THEN eventTypeCallbacks[name] ELSE << >>)
    \o (IF NoneKey \in DOMAIN eventTypeCallbacks
        THEN eventTypeCallbacks[NoneKey] ELSE << >>)

\* C10: a dispatched message with an event field reaches every subscriber of its
\* name and of the wildcard, also when it bears the id of a registered request,
\* whose callback then was invoked with it, and also when that callback raised.
C10_CorrelationAndEventPaths ==
    (last.op = "dispatch" /\ last.msg.event # Absent) =>
        /\ last.fanout = Subscribers(last.msg.event)
        /\ last.target # 0 =>
               /\ reqs[last.target].actionid = last.msg.actionid
               /\ reqs[last.target].got # << >>
               /\ reqs[last.target].got[Len(reqs[last.target].got)] = MsgVal(last.msg)

C10_Witness ==
    /\ last.op = "dispatch"
    /\ last.target # 0
    /\ last.raised
    /\ last.msg.event \in DOMAIN eventTypeCallbacks
    /\ NoneKey \in DOMAIN eventTypeCallbacks
    /\ Len(last.fanout) = 2
\* C11: every subscriber of a dispatched event's name and of the wildcard is
\* invoked with it, those after a handler that raises included, and no exception
\* leaves the dispatcher.
C11_HandlerFaultIsolated ==
    (last.op = "dispatch" /\ last.msg.event # Absent) =>
        /\ ~last.escaped
        /\ \A i \in DOMAIN Subscribers(last.msg.event) :
               /\ i \in DOMAIN last.fanout
               /\ last.fanout[i] = Subscribers(last.msg.event)[i]

C11_Witness ==
    /\ last.op = "dispatch"
    /\ last.msg.event \in DOMAIN eventTypeCallbacks
    /\ eventTypeCallbacks[last.msg.event] = <<"hr", "h1">>
    /\ NoneKey \in DOMAIN eventTypeCallbacks
    /\ eventTypeCallbacks[NoneKey] = <<"hr", "h1">>
    /\ last.fanout = <<"hr", "h1", "hr", "h1">>
\* the requests whose reply is the final reply of the login sequence of connection n
FinalLogin(n) == {r \in Reqs : reqs[r].conn = n /\ reqs[r].chain = "login"}

\* C12: the loginDefer of connection n (the n-th one created) succeeds only with
\* the protocol instance, on that connection, and exactly when the final reply of
\* the connection's login sequence has arrived with response = "Success".
C12_ReadyIffLoginSuccess ==
    \A d \in DOMAIN factory.defers :
        LET ok == \E r \in FinalLogin(d) :
                      reqs[r].seen # << >> /\ reqs[r].seen[1].response = "Success"
        IN  /\ factory.defers[d].state = "success" <=> ok
            /\ factory.defers[d].state = "success" =>
                   /\ factory.defers[d].result = Protocol
                   /\ factory.defers[d].conn = d

C12_Witness ==
    /\ ~factory.plaintext
    /\ Len(factory.defers) = 2
    /\ factory.defers[1].state = "failure"
    /\ factory.defers[2].state = "success"
    /\ factory.authenticated

\* C13: when the final reply of a connection's login sequence has a response other
\* than "Success", the connection's loginDefer has failed with AMICommandFailure
\* carrying that reply, and loseConnection was called on the transport.
C13_LoginFailureClosesAndFails ==
    \A d \in DOMAIN factory.defers : \A r \in FinalLogin(d) :
        (reqs[r].seen # << >> /\ reqs[r].seen[1].response # "Success") =>
            /\ factory.defers[d].state = "failure"
            /\ factory.defers[d].result = AMICommandFailure(reqs[r].seen[1])
            /\ d = factory.conn => factory.closed

C13_Witness ==
    /\ connected
    /\ factory.phase = "closing"
    /\ \E r \in FinalLogin(factory.conn) :
           /\ reqs[r].seen # << >>
           /\ reqs[r].seen[1].response = "Error"
           /\ factory.defers[factory.conn].result = AMICommandFailure(reqs[r].seen[1])

\* C14 (as claimed): once clientConnectionLost has created the next loginDefer, the
\* loginDefer of the connection that was lost is resolved.
C14_ReadyFailsOnLossBeforeLogin ==
    \A d \in DOMAIN factory.defers :
        d < Len(factory.defers) => factory.defers[d].state # "pending"

\* C15 (as claimed): the retry count that sets the backoff delay is reset only when
\* a login succeeds, so it equals the number of connections lost since then.
C15_BackoffResetOnlyWhenAuthenticated ==
    factory.retries = factory.lossesSinceAuth

\* C16: each loss of a connection creates one loginDefer; with on_reconnect
\* configured the callback has been handed each of them, once, in order, and
\* without it nothing; the outcome of the login sequence of a connection
\* resolves the loginDefer created by the loss before it.
C16_ReconnectGetsNewReady ==
    /\ factory.phase # "constructed" => Len(factory.defers) = factory.losses + 1
    /\ factory.notified = IF factory.onReconnect
                          THEN [i \in 1..factory.losses |-> i + 1]
                          ELSE << >>
    /\ \A d \in DOMAIN factory.defers :
           (factory.defers[d].state # "pending"
               /\ factory.defers[d].result # ConnectError) => factory.defers[d].conn = d

C16_Witness ==
    /\ factory.onReconnect
    /\ factory.notified = <<2>>
    /\ factory.defers[2].state = "success"
    /\ factory.defers[2].conn = 2
    /\ factory.defers[1].state = "success"
\* C19 (as claimed): the block "foo: bar", "line1", "line2--END COMMAND--" and a
\* blank line is parsed into the message with foo = "bar" and the multi-line
\* field <<"line1", "line2">>, and nothing else.
C19_EndCommandBlock ==
    (last.op = "dispatch" /\ last.block = <<FooBar, Line1, Line2End, << >> >>) =>
        /\ DOMAIN last.parsed = {<<"f", "o", "o">>, MultiLineKey}
        /\ last.parsed[<<"f", "o", "o">>] = <<"b", "a", "r">>
        /\ last.parsed[MultiLineKey] = <<<<"l", "i", "n", "e", "1">>, <<"l", "i", "n", "e", "2">>>>
\* C17: a connection that has just been made holds one id, one registered request
\* (its own login request), no handler and no buffered line; the registered
\* requests are those of the current connection, and a dispatched message invokes
\* only a request and handlers registered on the connection it arrived on.
C17_FreshSessionPerConnection ==
    /\ last.op = "connectionMade" =>
           /\ count = 1
           /\ DOMAIN actionIDCallbacks = {FormatActionId(1)}
           /\ actionIDCallbacks[FormatActionId(1)] = factory.loginReq
           /\ DOMAIN eventTypeCallbacks = {}
           /\ messageCache = << >>
    /\ \A k \in DOMAIN actionIDCallbacks :
           reqs[actionIDCallbacks[k]].conn = factory.conn
    /\ last.op = "dispatch" =>
           /\ last.target # 0 => reqs[last.target].conn = factory.conn
           /\ \A i \in DOMAIN last.fanout : last.fanout[i] = ConnHandler(factory.conn)

C17_Witness ==
    /\ factory.conn = 2
    /\ last.op = "dispatch"
    /\ last.target \in UserReqs
    /\ \E r \in UserReqs :
           /\ reqs[r].conn = 1
           /\ reqs[r].actionid = last.msg.actionid
           /\ reqs[r].got = <<ConnectionDone>>
    /\ regOps = 2
    /\ DOMAIN eventTypeCallbacks # {}
\* the requests that a step resolves
Resolved == {r \in Reqs : reqs[r].state = "pending" /\ reqs'[r].state # "pending"}

\* what a step may resolve, and what a step that dispatches a message resolves
C18_StepCompletesOwnRequest ==
    /\ \A r \in Resolved :
           /\ last'.op = "dispatch"
           /\ reqs[r].actionid = last'.msg.actionid
    /\ last'.op = "dispatch" =>
           \A r \in Reqs :
               (/\ reqs[r].state = "pending"
                /\ reqs[r].actionid = last'.msg.actionid
                /\ reqs[r].mode = "single" \/ last'.msg.event = reqs[r].stopEvent)
                   => r \in Resolved

\* C18: a request is resolved only in the step that dispatches a message bearing
\* its own id, whichever other requests are pending and whenever they were sent;
\* a pending sendDeferred request is resolved by the first such message and a
\* pending collectDeferred request by the first with its terminal event, so
\* requests complete in the order their replies are dispatched.
C18_CompletionFollowsArrival == [][C18_StepCompletesOwnRequest]_vars

C18_Witness ==
    /\ Len(reqs) = 3
    /\ reqs[1].state = "pending"
    /\ reqs[2].state = "success"
    /\ reqs[3].state = "success"
    /\ last.op = "dispatch"
    /\ last.target = 2
\* the handlers held for an event key, none when the key is missing
Held(reg, k) == IF k \in DOMAIN reg THEN reg[k] ELSE << >>

\* how often handler h occurs in a list of handlers
Occurrences(list, h) == Cardinality({i \in DOMAIN list : list[i] = h})

\* a registerEvent step appends one handler to the list of each key it names and
\* of at least one, also where the list holds that handler already
C20_RegisterAppends ==
    regOps' = regOps + 1 =>
        \E fn \in Handlers :
            /\ \A k \in EventKeys :
                   \/ Held(eventTypeCallbacks', k) = Held(eventTypeCallbacks, k)
                   \/ Held(eventTypeCallbacks', k) = Append(Held(eventTypeCallbacks, k), fn)
            /\ \E k \in EventKeys :
                   Held(eventTypeCallbacks', k) = Append(Held(eventTypeCallbacks, k), fn)

\* a dispatched event invokes each handler as often as the lists of the event's
\* name and of the wildcard hold it
C20_InvokedAsOftenAsHeld ==
    (last.op = "dispatch" /\ last.msg.event # Absent) =>
        \A h \in Handlers :
            Occurrences(last.fanout, h) =
                Occurrences(Held(eventTypeCallbacks, last.msg.event), h)
                + Occurrences(Held(eventTypeCallbacks, NoneKey), h)

\* C20: registerEvent stores a handler again each time it is called with it, and
\* every event dispatched afterwards invokes the handler once per stored entry.
C20_DuplicateRegistration ==
    [][C20_RegisterAppends]_vars /\ []C20_InvokedAsOftenAsHeld

C20_Witness ==
    /\ last.op = "dispatch"
    /\ last.msg.event = "T"
    /\ Held(eventTypeCallbacks, "T") = <<"h1", "h1">>
    /\ Held(eventTypeCallbacks, NoneKey) = <<"h1", "h1", "hr">>
    /\ last.fanout = <<"h1", "h1", "h1", "h1", "hr">>
\* C21 (as claimed): deregisterEvent returns true exactly when the handler was
\* held under every listed name at the time of the call.
C21_DeregisterReportsFound ==
    last.op = "deregisterEvent" => (last.ret <=> last.found)
\* the requests of the Challenge stage that a reply has answered
AnsweredChallenges ==
    {r \in Reqs : reqs[r].chain = "challenge" /\ reqs[r].seen # << >>}

\* C22 (as claimed): in challenge-response mode a Login request exists exactly
\* for the connections whose Challenge reply carried a challenge, and its key is
\* the digest of that challenge and the secret; a Challenge reply without a
\* challenge sends no Login request, closes the transport and fails loginDefer.
C22_ChallengeThenLogin ==
    /\ \A r \in AnsweredChallenges :
           LET n == reqs[r].conn
               m == reqs[r].seen[1]
           IN  IF m.challenge # Absent
               THEN \E q \in FinalLogin(n) :
                        q > r /\ reqs[q].key = Digest(m.challenge, Secret)
               ELSE /\ FinalLogin(n) = {}
                    /\ factory.defers[n].state = "failure"
                    /\ n = factory.conn => factory.closed
    /\ ~factory.plaintext =>
           \A q \in Reqs : reqs[q].chain = "login" =>
               \E r \in AnsweredChallenges :
                   reqs[r].conn = reqs[q].conn /\ reqs[r].seen[1].challenge # Absent

\* the lines written by the last sendMessage
SentLines == [i \in DOMAIN last.sent |-> last.sent[i].line]

\* the message the receiving side makes of written lines: lineReceived collects
\* them up to the first blank one and dispatchIncoming parses the collected block
Reparse(lines) ==
    LET blanks == {i \in DOMAIN lines : Strip(lines[i]) = << >>}
        n == IF blanks = {} THEN 0 ELSE Min(blanks)
    IN  ParseCache(SubSeq(lines, 1, n),
                   [message |-> EmptyDict, version |-> NoVersion]).message

\* a mapping as its set of key/value pairs
Fields(message) == {<<k, message[k]>> : k \in DOMAIN message}

\* the lowercased key/value set of the last request, with its actionid
RequestFields ==
    {<<Lower(last.request[i][1]), last.request[i][2]>> : i \in DOMAIN last.request}
    \cup {<<ActionIdKey, last.actionid>>}

\* C23 (as claimed): for any request, the lines sendMessage writes parse back to
\* a message whose fields are the request's lowercased key/value set together
\* with the actionid.
C23_RoundTripAny ==
    last.op = "sendMessage" => Fields(Reparse(SentLines)) = RequestFields

\* a request the line format can carry: the lowercased keys differ, no key holds
\* a colon, no key or value starts or ends with whitespace, and no value ends
\* with the end-of-output marker
Carriable(request) ==
    /\ \A i, j \in DOMAIN request :
           i # j => Lower(request[i][1]) # Lower(request[j][1])
    /\ \A i \in DOMAIN request :
           /\ FirstIndex(request[i][1], ":") = 0
           /\ Strip(request[i][1]) = request[i][1]
           /\ Strip(request[i][2]) = request[i][2]
           /\ ~EndsWith(request[i][2], END_DATA)

\* C23 (corrected): for a request whose lowercased keys are distinct, whose keys
\* hold no colon, whose keys and values neither start nor end with whitespace and
\* whose values do not end with the end-of-output marker, the lines sendMessage
\* writes parse back to a message whose fields are the request's lowercased
\* key/value set together with the actionid.
C23_RoundTripCarriable ==
    (last.op = "sendMessage" /\ Carriable(last.request))
        => Fields(Reparse(SentLines)) = RequestFields

C23_Witness ==
    /\ last.op = "sendMessage"
    /\ Carriable(last.request)
    /\ Len(last.request) = 2
    /\ \E i \in DOMAIN last.request : Lower(last.request[i][1]) # last.request[i][1]
    /\ last.actionid \in {generated[i] : i \in DOMAIN generated}
    /\ Fields(Reparse(SentLines)) = RequestFields
    /\ Cardinality(RequestFields) = 3

\* C24 (as claimed): a sendDeferred request with an error observer whose reply has
\* response = "Error" has its observer invoked once, with that reply, while the
\* request is still in actionIDCallbacks.
C24_ObserverBeforeCleanup ==
    \A r \in OfMode("single") :
        (/\ reqs[r].observer # "none"
         /\ reqs[r].got # << >>
         /\ IsDict(reqs[r].got[1])
         /\ reqs[r].got[1].msgs[1].response = "Error") =>
            /\ reqs[r].observed = <<reqs[r].got[1].msgs[1]>>
            /\ reqs[r].heldAtObserver = <<TRUE>>

\* the requests of sendDeferred and collectDeferred that are over: completed by
\* their own chain, or cut off by the loss of the connection
Over == {r \in OfMode("single") \cup OfMode("collect") :
            reqs[r].state # "pending" \/ ~connected}

\* the requests whose id actionIDCallbacks holds
Registered == {r \in Reqs : reqs[r].actionid \in DOMAIN actionIDCallbacks}

\* C25: a request completed by a reply, by its terminal event, by an Error reply
\* or by the loss of the connection is no longer in actionIDCallbacks, no step
\* puts it back, every step that removes a request removes one that the step
\* completed, and cleanup called again for it leaves actionIDCallbacks as it
\* is and raises nothing.
C25_CleanupOncePerRequest ==
    [][/\ \A r \in Over' : r \notin Registered'
       /\ \A r \in Registered \ Registered' : r \in Over' \ Over
       /\ \A r \in Reqs : r \notin Registered => r \notin Registered'
       /\ last'.op = "cleanup" =>
              /\ actionIDCallbacks' = actionIDCallbacks
              /\ ~last'.raised]_vars

C25_Witness ==
    /\ last.op = "cleanup"
    /\ ~connected
    /\ \E r \in OfMode("single") : reqs[r].state = "success" /\ reqs[r].seen # << >>
    /\ \E r \in OfMode("collect") : reqs[r].state = "pending" /\ r \in lost.pending
    /\ Registered = {}

\* C26: when sendMessage is given a callback, the request's id is in
\* actionIDCallbacks at the time each of its lines is written, the first one
\* included; the lines written are one line per field of the request and of its
\* actionid, none of them blank, followed by one blank line.
C26_RegisteredBeforeWritten ==
    last.op = "sendMessage" =>
        LET n == Len(last.sent)
            keys == {Lower(last.request[i][1]) : i \in DOMAIN last.request}
                    \cup {ActionIdKey}
        IN  /\ n >= 2
            /\ \A i \in 1..n : last.sent[i].registered
            /\ last.actionid \in DOMAIN actionIDCallbacks
            /\ \A i \in 1..(n - 1) : Strip(last.sent[i].line) # << >>
            /\ last.sent[n].line = << >>
            /\ IF last.form = "list"
               THEN /\ n = Len(last.request) + 2
                    /\ \A i \in DOMAIN last.request :
                           last.sent[i].line = RenderLine(last.request[i])
                    /\ last.sent[n - 1].line
                           = RenderLine(<<ActionIdKey, last.actionid>>)
               ELSE /\ n = Cardinality(keys) + 1
                    /\ \A k \in keys : \E i \in 1..(n - 1) :
                           StartsWith(last.sent[i].line, k \o <<":">>)

C26_Witness ==
    /\ last.op = "sendMessage"
    /\ last.form = "list"
    /\ Len(last.request) = 2
    /\ Len(last.sent) = 4
    /\ last.sent[1].registered
    /\ last.sent[1].line = <<"a", ":", " ", "x">>
    /\ last.sent[4].line = << >>
    /\ actionIDCallbacks[last.actionid] = 1

\* the step is a lineReceived that called dispatchIncoming
Dispatched == last'.op = "dispatch" /\ arrivals' = arrivals + 1

\* the step is a lineReceived that only kept its line
Buffered == last'.op = "lineReceived" /\ arrivals' = arrivals

\* C27 (as claimed): a line that is received is added to the buffer; if it is
\* empty, one message is dispatched, built from the buffered lines, and the buffer
\* is left empty; if it is not empty, nothing is dispatched.
C27_DispatchPerEmptyLine ==
    [][/\ Dispatched \/ Buffered
       /\ Dispatched =>
              /\ last'.block = Append(messageCache, << >>)
              /\ last'.parsed = ParseCache(last'.block,
                                           [message |-> EmptyDict,
                                            version |-> amiVersion]).message
              /\ messageCache' = << >>
       /\ Buffered =>
              \E line \in FramingLines \ {<< >>} :
                  messageCache' = Append(messageCache, line)]_vars

\* C27 (corrected): a line that is received is added to the buffer; if it is
\* empty or holds only whitespace, one message is dispatched, built from the
\* buffered lines, and the buffer is left empty; if it holds anything else,
\* nothing is dispatched.
C27_DispatchPerBlankLine ==
    [][/\ Dispatched \/ Buffered
       /\ Dispatched =>
              /\ \E line \in {l \in FramingLines : Strip(l) = << >>} :
                     last'.block = Append(messageCache, line)
              /\ last'.parsed = ParseCache(last'.block,
                                           [message |-> EmptyDict,
                                            version |-> amiVersion]).message
              /\ messageCache' = << >>
       /\ Buffered =>
              \E line \in {l \in FramingLines : Strip(l) # << >>} :
                  messageCache' = Append(messageCache, line)]_vars

C27_Witness ==
    /\ arrivals = 2
    /\ last.op = "dispatch"
    /\ last.block = <<Line1, FooBar, <<" ">> >>
    /\ DOMAIN last.parsed = {<<"f", "o", "o">>}
    /\ messageCache = << >>

\* C28 (as claimed): the handlers a dispatch invokes are those held under the
\* event's name and under the wildcard when the dispatch began, each as often as
\* it was held, whatever the handlers register or deregister meanwhile, and the
\* dispatch ends.
C28_DispatchUsesSnapshot ==
    [][last'.op = "dispatch" =>
           /\ ~last'.unfinished
           /\ \A h \in ReentrantHandlers :
                  Occurrences(last'.fanout, h)
                      = Occurrences(Held(eventTypeCallbacks, last'.msg.event), h)
                        + Occurrences(Held(eventTypeCallbacks, NoneKey), h)]_vars

\* C29: after one call of login, whatever connections fail, are made, log in or
\* fail to and are lost, callback or errback is called at most once on each
\* loginDefer, and a loginDefer that was called is resolved.
C29_ReadyResolvedAtMostOnce ==
    \A d \in DOMAIN factory.defers :
        /\ factory.defers[d].calls <= 1
        /\ factory.defers[d].calls = 1 <=> factory.defers[d].state # "pending"

C29_Witness ==
    /\ Len(factory.defers) = 2
    /\ factory.defers[1].state = "failure"
    /\ factory.defers[1].calls = 1
    /\ factory.defers[2].result = ConnectError
    /\ factory.defers[2].calls = 1
    /\ factory.phase = "stopped"

\* C30 (as claimed): when a connection attempt made after the loss of a connection
\* fails, a further attempt is scheduled: the factory is connecting again and
\* has counted one more retry.
C30_FailedReconnectRetries ==
    [][(last'.op = "clientConnectionFailed" /\ factory.losses > 0) =>
           /\ factory'.phase = "connecting"
           /\ factory'.retries = factory.retries + 1]_vars

\* C31 (as claimed): a request sent with a callback that is pending on a
\* connection that is up is the request actionIDCallbacks holds under its
\* actionid, also when a later request named the same actionid.
C31_SendKeepsPendingEntries ==
    connected =>
        \A r \in OfMode("single") \cup OfMode("collect") :
            reqs[r].state = "pending" =>
                /\ reqs[r].actionid \in DOMAIN actionIDCallbacks
                /\ actionIDCallbacks[reqs[r].actionid] = r
====
